---- MODULE Spec2Model ----
(***************************************************************************)
(* Model of depth_map_snr, the healpix depth-map routine of                *)
(* tutorials/object_gcr_2_lensing_cuts.ipynb (source lines 216-253), and   *)
(* of the notebook cell that calls it (lines 293-294).                     *)
(*                                                                         *)
(* Numbers.  A float is a record [nan, v]: NaN, or Num(v) with v an        *)
(* integer.  Magnitudes and depths are counted in units of 1/290 mag, the  *)
(* smallest unit in which the bin edges 22 + 0.2*i, the bin midpoints      *)
(* 22.1 + 0.2*i and the 30 points of np.linspace(22.2, 27.8, 30) are all   *)
(* integers (22 mag = 6380, 0.2 mag = 58, 5.6/29 mag = 56).  Angles are    *)
(* whole degrees.  A median is kept as twice its value, so that the mean   *)
(* of the two middle elements stays an integer.                            *)
(*                                                                         *)
(* Libraries.  numpy and healpy behave as at the notebook's time: a        *)
(* boolean mask must have the length of the array it indexes, np.linspace  *)
(* takes the float 30. as 30 points, and hp.ang2pix checks theta and then  *)
(* nside (a power of two) before it projects.  utils/cic.py is not among   *)
(* the sources: binned_statistic follows the written specification.        *)
(***************************************************************************)
EXTENDS Integers, Sequences, FiniteSets

VARIABLES
    ra, dec, mags, snr,   \* the four input arrays (line 216)
    snr_threshold, nside, \* the two keyword arguments (line 216)
    ub_pix,               \* the pixel this build yields for a NaN longitude
    pc,                   \* position inside the call
    good,                 \* line 227
    pix_nums,             \* line 229
    map_out,              \* line 232
    pending,              \* pixels of np.unique(pix_nums) not yet visited
    median_snr,           \* line 243, of the pixel visited last
    last_px,              \* the pixel visited last, -1 before the first
    err,                  \* the exception that ended the call, or "none"
    calls,                \* what each finished call gave back, oldest first
    inflight              \* depths computed by workers and not yet merged

vars == <<ra, dec, mags, snr, snr_threshold, nside, ub_pix, pc, good,
          pix_nums, map_out, pending, median_snr, last_px, err, calls,
          inflight>>

inputs == <<ra, dec, mags, snr, snr_threshold, nside, ub_pix>>

----------------------------------------------------------------------------
(* Bound of the model: the longest input array *)

MaxRows == 2

----------------------------------------------------------------------------
(* Floats *)

NaN == [nan |-> TRUE, v |-> 0]
Num(x) == [nan |-> FALSE, v |-> x]
isnan(x) == x.nan

(* Units per magnitude: 290 = 10 * (30 - 1). *)
MagUnit == 290

----------------------------------------------------------------------------
(* Sequence helpers standing for numpy array operations *)

RECURSIVE SelectMask(_, _)
(* a[mask] for a boolean mask no longer than a *)
SelectMask(a, mask) ==
    IF mask = <<>> THEN <<>>
    ELSE IF Head(mask) THEN <<Head(a)>> \o SelectMask(Tail(a), Tail(mask))
         ELSE SelectMask(Tail(a), Tail(mask))

RECURSIVE Insert(_, _)
Insert(x, s) ==
    IF s = <<>> THEN <<x>>
    ELSE IF x <= Head(s) THEN <<x>> \o s
         ELSE <<Head(s)>> \o Insert(x, Tail(s))

RECURSIVE Sort(_)
Sort(s) == IF s = <<>> THEN <<>> ELSE Insert(Head(s), Sort(Tail(s)))

RECURSIVE Dedup(_)
Dedup(s) ==
    IF Len(s) <= 1 THEN s
    ELSE IF s[1] = s[2] THEN Dedup(Tail(s))
         ELSE <<s[1]>> \o Dedup(Tail(s))

(* np.unique: the sorted distinct values *)
unique(s) == Dedup(Sort(s))

(* np.count_nonzero of a boolean array *)
count_nonzero(mask) == Cardinality({i \in DOMAIN mask : mask[i]})

fabs(x) == IF x < 0 THEN 0 - x ELSE x

----------------------------------------------------------------------------
(* healpy.ang2pix, RING scheme, as called on line 229 *)

(* healpy's isnsideok: a positive power of two *)
RECURSIVE IsPow2(_)
IsPow2(n) == IF n <= 0 THEN FALSE
             ELSE IF n = 1 THEN TRUE
             ELSE n % 2 = 0 /\ IsPow2(n \div 2)

(* a check that lets 0 and negative values through *)
isnsideok_unchecked(n) == TRUE

isnsideok(n) == IsPow2(n)

(* for the declinations the inputs are drawn from, 20 and 80 degrees:    *)
(* 1000*sin(dec) and, for the polar caps, 1000*sqrt(3*(1 - |sin(dec)|))  *)
SinMilli(d) == IF d = 20 THEN 342 ELSE 985
CapMilli(d) == 213

(* 12*nside in place of 12*nside**2 *)
Npix_linear(n) == 12 * n

(* line 232: the number of pixels of the map *)
Npix(n) == 12 * n * n

(* the pixel of colatitude 90 - d degrees and longitude r degrees; z is  *)
(* cos(colatitude) and tt is the longitude in units of pi/2              *)
ang2pix_ring(n, d, r) ==
    LET z    == SinMilli(d)
        za   == fabs(z)
        ncap == 2 * n * (n - 1)
    IN  IF 3 * za <= 2000
        THEN \* equatorial belt
             LET temp1  == n * (18000 + 400 * r)    \* 36000 * n*(0.5+tt)
                 temp2  == n * 27 * z               \* 36000 * n*z*0.75
                 jp     == (temp1 - temp2) \div 36000
                 jm     == (temp1 + temp2) \div 36000
                 ir     == n + 1 + jp - jm
                 kshift == 1 - (ir % 2)
                 ip     == ((jp + jm - n + kshift + 1 + 8 * n) \div 2) % (4 * n)
             IN  ncap + (ir - 1) * 4 * n + ip
        ELSE \* polar caps
             LET tp  == r % 90                      \* 90 * (tt - int(tt))
                 tmp == n * CapMilli(d)             \* 1000 * n*sqrt(3*(1-za))
                 jp  == (tp * tmp) \div 90000
                 jm  == ((90 - tp) * tmp) \div 90000
                 ir  == jp + jm + 1
                 ip  == ((r * ir) \div 90) % (4 * ir)
             IN  IF z > 0 THEN 2 * ir * (ir - 1) + ip
                 ELSE Npix(n) - 2 * ir * (ir + 1) + ip

(* a projection whose undefined results change from one call to the next *)
ang2pix_drifting(n, d, r) ==
    IF isnan(r) \/ ~IsPow2(n) THEN (ub_pix + Len(calls)) % Npix(n)
    ELSE ang2pix_ring(n, d.v, r.v)

(* A NaN longitude reaches a float-to-integer conversion inside the      *)
(* library, which is undefined, as is the arithmetic for an nside that   *)
(* is no power of two: the pixel is whatever this build yields, ub_pix,  *)
(* the same at every call.                                               *)
ang2pix(n, d, r) ==
    IF isnan(r) \/ ~IsPow2(n) THEN ub_pix ELSE ang2pix_ring(n, d.v, r.v)

----------------------------------------------------------------------------
(* The inputs the calls are drawn from *)

(* (ra, dec) in degrees: two finite positions, in different pixels at    *)
(* every nside used, and the three ways a coordinate can be NaN          *)
PosA == <<Num(10), Num(20)>>
PosB == <<Num(100), Num(80)>>
Coords == { PosA, PosB, <<NaN, Num(20)>>, <<Num(10), NaN>>, <<NaN, NaN>> }
(* 22.0 and 24.0 mag: the first bin and bin 10; 21.0 and 28.0 mag lie    *)
(* outside [22, 28)                                                      *)
Mag22 == Num(22 * MagUnit)
Mag24 == Num(24 * MagUnit)
Mag21 == Num(21 * MagUnit)
Mag28 == Num(28 * MagUnit)
MagVals == { Mag22, Mag24 }
SnrVals == { NaN, Num(8), Num(10), Num(12) }
ThresholdVals == { 9, 10 }
NsideVals == { -1, 0, 1, 2 }

(* a row is <<(ra, dec), magnitude, snr>> *)
Rows ==
    ({PosA} \X MagVals \X SnrVals)
    \cup ({PosB} \X {Mag24} \X {NaN, Num(12)})
    \cup ({PosA} \X {Mag28, NaN} \X {Num(8)})
    \cup ({PosB} \X {Mag21} \X {Num(12)})
    \cup ({<<NaN, Num(20)>>} \X {Mag22} \X {Num(8)})
    \cup ({<<Num(10), NaN>>} \X {Mag24} \X {Num(8)})
    \cup ({<<NaN, NaN>>} \X {Mag24} \X {Num(12)})

(* The arrays are the columns of a table of n rows, each cut short by a   *)
(* number of trailing elements: <<ra, dec, mags, snr>>.                   *)
Cuts == { <<0, 0, 0, 0>>, <<1, 0, 0, 0>>, <<2, 0, 0, 0>>, <<1, 1, 0, 0>>,
          <<0, 0, 1, 0>>, <<0, 0, 1, 1>> }

CutShort(column, short) ==
    SubSeq(column, 1, IF short > Len(column) THEN 0 ELSE Len(column) - short)

RowRa(row) == row[1][1]
RowDec(row) == row[1][2]
RowMag(row) == row[2]
RowSnr(row) == row[3]

(* the pixels a build may yield for a NaN longitude: the first pixel, the *)
(* pixels of the two finite coordinates, the last pixel                   *)
UBPixels(n) ==
    { 0, ang2pix_ring(n, 20, 10), ang2pix_ring(n, 80, 100), Npix(n) - 1 }

HasNaNLongitude(r, d) ==
    \E i \in DOMAIN r : i \in DOMAIN d /\ isnan(r[i]) /\ ~isnan(d[i])

Init ==
    /\ \E n \in 0..MaxRows :
         \E t \in [1..n -> Rows] :
           \E cut \in Cuts :
             /\ ra   = CutShort([i \in 1..n |-> RowRa(t[i])], cut[1])
             /\ dec  = CutShort([i \in 1..n |-> RowDec(t[i])], cut[2])
             /\ mags = CutShort([i \in 1..n |-> RowMag(t[i])], cut[3])
             /\ snr  = CutShort([i \in 1..n |-> RowSnr(t[i])], cut[4])
             /\ snr_threshold \in ThresholdVals
             /\ nside \in NsideVals
    /\ ub_pix \in IF IsPow2(nside) /\ HasNaNLongitude(ra, dec)
                  THEN UBPixels(nside) ELSE {0}
    /\ pc = "filter"
    /\ good = <<>>
    /\ pix_nums = <<>>
    /\ map_out = <<>>
    /\ pending = <<>>
    /\ median_snr = <<>>
    /\ last_px = -1
    /\ err = "none"
    /\ calls = <<>>
    /\ inflight = {}

----------------------------------------------------------------------------
(* The call, line by line *)

(* an exception leaves the function: nothing is returned *)
Raise(e) ==
    /\ pc' = "done"
    /\ err' = e
    /\ calls' = Append(calls, [ok |-> FALSE, err |-> e, map |-> <<>>])

(* numpy broadcasting of two one-dimensional arrays *)
Broadcastable(a, b) == Len(a) = Len(b) \/ Len(a) = 1 \/ Len(b) = 1
BroadcastLen(a, b) == IF Len(a) = 1 THEN Len(b) ELSE Len(a)
At(a, i) == IF Len(a) = 1 THEN a[1] ELSE a[i]

(* a mask shorter than the array let through *)
IndexLenOK_lax(a, mask) == Len(a) >= Len(mask)

(* a[mask]: numpy takes a boolean mask only of a's own length *)
IndexLenOK(a, mask) == Len(a) = Len(mask)

(* line 227: np.logical_or(np.logical_not(np.isnan(ra)),                 *)
(*                         np.logical_not(np.isnan(dec)))                *)
GoodRow(r, d) == ~isnan(r) \/ ~isnan(d)

Filter ==
    /\ pc = "filter"
    /\ IF Broadcastable(ra, dec)
       THEN /\ good' = [i \in 1..BroadcastLen(ra, dec) |->
                            GoodRow(At(ra, i), At(dec, i))]
            /\ pc' = "project"
            /\ UNCHANGED <<err, calls>>
       ELSE /\ Raise("broadcast")
            /\ UNCHANGED good
    /\ UNCHANGED <<inputs, pix_nums, map_out, pending, median_snr,
                   last_px, inflight>>

(* a range check through min and max, which fail on an empty array *)
ThetaValid_nonempty(d) == d # <<>> /\ \A i \in DOMAIN d : ~isnan(d[i])

(* healpy's check_theta_valid: 0 <= theta <= pi, false of a NaN *)
ThetaValid(d) == \A i \in DOMAIN d : ~isnan(d[i])

(* line 229: hp.ang2pix(nside, pi/2 - dec[good]*pi/180, ra[good]*pi/180) *)
Project ==
    /\ pc = "project"
    /\ IF ~IndexLenOK(dec, good) \/ ~IndexLenOK(ra, good)
       THEN /\ Raise("boolean_index")
            /\ UNCHANGED pix_nums
       ELSE LET d == SelectMask(dec, good)
                r == SelectMask(ra, good)
            IN  IF ~ThetaValid(d)
                THEN /\ Raise("theta")
                     /\ UNCHANGED pix_nums
                ELSE IF ~isnsideok(nside)
                THEN /\ Raise("nside")
                     /\ UNCHANGED pix_nums
                ELSE /\ pix_nums' = [i \in 1..Len(d) |-> ang2pix(nside, d[i], r[i])]
                     /\ pc' = "create"
                     /\ UNCHANGED <<err, calls>>
    /\ UNCHANGED <<inputs, good, map_out, pending, median_snr,
                   last_px, inflight>>

(* np.linspace(start, stop, num)[i] for i in 0..num-1 *)
linspace(start, stop, num) ==
    [k \in 1..num |-> start + ((k - 1) * (stop - start)) \div (num - 1)]

(* line 235: np.linspace(22+6/30., 28-6/30., 30.) *)
NBins == 30
RangeLo == 22
RangeHi == 28
bin_centers ==
    linspace(RangeLo * MagUnit + (6 * MagUnit) \div 30,
             RangeHi * MagUnit - (6 * MagUnit) \div 30, NBins)

(* np.zeros(n), indexed from 0 *)
zeros(n) == [p \in 0..(n - 1) |-> 0]

(* one buffer kept across the calls in place of a new array: creating   *)
(* the map clears the maps returned before                               *)
CreateMap_shared ==
    /\ pc = "create"
    /\ map_out' = zeros(Npix(nside))
    /\ pending' = unique(pix_nums)
    /\ pc' = "loop"
    /\ calls' = [n \in DOMAIN calls |->
                    IF calls[n].ok
                    THEN [calls[n] EXCEPT !.map = zeros(Npix(nside))]
                    ELSE calls[n]]
    /\ UNCHANGED <<inputs, good, pix_nums, median_snr, last_px, err, inflight>>

(* lines 232-238: the output map and the pixels to visit *)
CreateMap ==
    /\ pc = "create"
    /\ map_out' = zeros(Npix(nside))
    /\ pending' = unique(pix_nums)
    /\ pc' = "loop"
    /\ UNCHANGED <<inputs, good, pix_nums, median_snr, last_px, err, calls,
                   inflight>>

(* np.nanmedian of one group, as twice the median: the NaN are dropped,  *)
(* the rest sorted, and the middle element (or the mean of the two       *)
(* middle ones) taken; NaN when nothing is left                          *)
RECURSIVE DropNaN(_)
DropNaN(g) ==
    IF g = <<>> THEN <<>>
    ELSE IF isnan(Head(g)) THEN DropNaN(Tail(g))
         ELSE <<Head(g).v>> \o DropNaN(Tail(g))

(* np.median in place of np.nanmedian: one NaN makes the median NaN *)
median_with_nan(group) ==
    IF \E i \in DOMAIN group : isnan(group[i]) THEN NaN
    ELSE LET s == Sort(DropNaN(group))
             n == Len(s)
         IN  IF n = 0 THEN NaN
             ELSE Num(s[(n + 1) \div 2] + s[n \div 2 + 1])

nanmedian(group) ==
    LET s == Sort(DropNaN(group))
        n == Len(s)
    IN  IF n = 0 THEN NaN
        ELSE Num(s[(n + 1) \div 2] + s[n \div 2 + 1])

(* the magnitude bin of x, 0..nbins-1, or -1 when x is NaN or outside    *)
(* [lo, hi)                                                              *)
BinOf(x, nbins, lo, hi) ==
    IF isnan(x) \/ x.v < lo * MagUnit \/ x.v >= hi * MagUnit THEN -1
    ELSE ((x.v - lo * MagUnit) * nbins) \div ((hi - lo) * MagUnit)

(* utils.cic.binned_statistic(x, values, np.nanmedian, nbins, range):    *)
(* the nanmedian of the values whose x falls in each of the nbins bins   *)
(* of the range                                                          *)
binned_statistic(x, values, nbins, lo, hi) ==
    [k \in 1..nbins |->
        nanmedian(SelectMask(values,
                             [i \in 1..Len(x) |-> BinOf(x[i], nbins, lo, hi) = k - 1]))]

(* np.argmin: the first position of the smallest element, from 0 *)
argmin(a) ==
    (CHOOSE i \in DOMAIN a :
        /\ \A j \in DOMAIN a : a[i] <= a[j]
        /\ \A j \in DOMAIN a : j < i => a[j] > a[i]) - 1

(* line 247: bin_centers[mask2][np.argmin(np.fabs(median_snr[mask2] -    *)
(* snr_threshold))], the medians being kept doubled                      *)
Depth(median, mask2, threshold) ==
    LET dist == [i \in 1..count_nonzero(mask2) |->
                    fabs(SelectMask(median, mask2)[i].v - 2 * threshold)]
    IN  SelectMask(bin_centers, mask2)[argmin(dist) + 1]

(* a value left over from the pixel visited before *)
NoDepth_stale == IF last_px >= 0 THEN map_out[last_px] ELSE 0

(* a sentinel in place of 0 *)
NoDepth_sentinel == 0 - 1

(* lines 250 and 252: the depth of a pixel without a defined median *)
NoDepth == 0

(* lines 240-252: the body of the loop for pixel px: whether an index    *)
(* raises, the medians of line 243, and the value written to map_out[px] *)
LoopBody(px) ==
    LET mask == [i \in 1..Len(pix_nums) |-> pix_nums[i] = px]
    IN  IF count_nonzero(mask) > 0
        THEN IF ~IndexLenOK(mags, mask) \/ ~IndexLenOK(snr, mask)
             THEN [raises |-> TRUE, median |-> median_snr, value |-> NoDepth]
             ELSE LET median == binned_statistic(SelectMask(mags, mask),
                                                 SelectMask(snr, mask),
                                                 NBins, RangeLo, RangeHi)
                      mask2  == [k \in 1..NBins |-> isnan(median[k]) = FALSE]
                  IN  [raises |-> FALSE,
                       median |-> median,
                       value  |-> IF count_nonzero(mask2) > 0
                                  THEN Depth(median, mask2, snr_threshold)
                                  ELSE NoDepth]
        ELSE [raises |-> FALSE, median |-> median_snr, value |-> NoDepth]

(* lines 238-252: one iteration of the loop over np.unique(pix_nums) *)
PixelStep ==
    /\ pc = "loop"
    /\ pending # <<>>
    /\ \E body \in {LoopBody(Head(pending))} :
          IF body.raises
          THEN /\ Raise("boolean_index")
               /\ UNCHANGED <<map_out, pending, median_snr, last_px>>
          ELSE /\ median_snr' = body.median
               /\ map_out' = [map_out EXCEPT ![Head(pending)] = body.value]
               /\ pending' = Tail(pending)
               /\ last_px' = Head(pending)
               /\ UNCHANGED <<pc, err, calls>>
    /\ UNCHANGED <<inputs, good, pix_nums, inflight>>

(* line 253: return map_out *)
Return ==
    /\ pc = "loop"
    /\ pending = <<>>
    /\ inflight = {}
    /\ pc' = "done"
    /\ calls' = Append(calls, [ok |-> TRUE, err |-> "none", map |-> map_out])
    /\ UNCHANGED <<inputs, good, pix_nums, map_out, pending, median_snr,
                   last_px, err, inflight>>

(* lines 293-294: the notebook calls the function twice; here the second *)
(* call is given the arrays of the first                                 *)
NCalls == 2

CallAgain ==
    /\ pc = "done"
    /\ Len(calls) < NCalls
    /\ pc' = "filter"
    /\ good' = <<>>
    /\ pix_nums' = <<>>
    /\ map_out' = <<>>
    /\ pending' = <<>>
    /\ median_snr' = <<>>
    /\ last_px' = -1
    /\ err' = "none"
    /\ UNCHANGED <<inputs, calls, inflight>>

Next ==
    \/ Filter
    \/ Project
    \/ CreateMap
    \/ PixelStep
    \/ Return
    \/ CallAgain

Spec == Init /\ [][Next]_vars

----------------------------------------------------------------------------
(* The loop run by independent workers, one per pixel: a worker computes *)
(* the body of the loop for its pixel, and its value is merged into the  *)
(* map later; pixels are taken, and values merged, in any order.  The    *)
(* first call runs the loop as written and the second call runs it by    *)
(* workers, on the same arrays.                                          *)

Pixels(s) == { s[i] : i \in DOMAIN s }

RECURSIVE Without(_, _)
Without(s, x) ==
    IF s = <<>> THEN <<>>
    ELSE IF Head(s) = x THEN Without(Tail(s), x)
         ELSE <<Head(s)>> \o Without(Tail(s), x)

SeqPixelStep == Len(calls) = 0 /\ PixelStep

WorkerCompute ==
    /\ pc = "loop"
    /\ Len(calls) > 0
    /\ \E px \in Pixels(pending) :
         \E body \in {LoopBody(px)} :
            IF body.raises
            THEN /\ Raise("boolean_index")
                 /\ inflight' = {}
                 /\ UNCHANGED <<pending, median_snr, last_px>>
            ELSE /\ inflight' = inflight \cup {[px |-> px, value |-> body.value]}
                 /\ pending' = Without(pending, px)
                 /\ median_snr' = body.median
                 /\ last_px' = px
                 /\ UNCHANGED <<pc, err, calls>>
    /\ UNCHANGED <<inputs, good, pix_nums, map_out>>

WorkerMerge ==
    /\ pc = "loop"
    /\ \E w \in inflight :
         /\ map_out' = [map_out EXCEPT ![w.px] = w.value]
         /\ inflight' = inflight \ {w}
    /\ UNCHANGED <<inputs, good, pix_nums, pending, median_snr, last_px, pc,
                   err, calls>>

NextPar ==
    \/ Filter
    \/ Project
    \/ CreateMap
    \/ SeqPixelStep
    \/ WorkerCompute
    \/ WorkerMerge
    \/ Return
    \/ CallAgain

SpecPar == Init /\ [][NextPar]_vars


----------------------------------------------------------------------------
(* What the properties below speak of, stated from the inputs alone *)

(* the four arrays have one length *)
SameLength ==
    /\ Len(dec) = Len(ra)
    /\ Len(mags) = Len(ra)
    /\ Len(snr) = Len(ra)

(* a call has gone past line 229 without an exception *)
Projected == pc \in {"create", "loop"} \/ (pc = "done" /\ err = "none")

(* a pixel has been visited by the loop and the call has not failed *)
Visited == last_px >= 0 /\ (pc = "loop" \/ (pc = "done" /\ err = "none"))

(* the call has returned a map *)
Returned == pc = "done" /\ err = "none"
LastCall == calls[Len(calls)]

(* row i has both coordinates *)
BothFinite(i) == ~isnan(ra[i]) /\ ~isnan(dec[i])

(* the rows of pixel px and magnitude bin k (from 0) that carry an snr *)
UsableRows(px, k) ==
    { i \in 1..Len(ra) :
        /\ ~isnan(snr[i])
        /\ BinOf(mags[i], NBins, RangeLo, RangeHi) = k
        /\ GoodRow(ra[i], dec[i])
        /\ ang2pix(nside, dec[i], ra[i]) = px }

(* the rows of pixel px and bin k, whatever their snr *)
BinRows(px, k) ==
    { i \in 1..Len(ra) :
        /\ GoodRow(ra[i], dec[i])
        /\ ang2pix(nside, dec[i], ra[i]) = px
        /\ BinOf(mags[i], NBins, RangeLo, RangeHi) = k }

(* row i holds the r-th smallest snr among the rows I *)
HasRank(i, r, I) ==
    /\ Cardinality({k \in I : snr[k].v < snr[i].v}) < r
    /\ r <= Cardinality({k \in I : snr[k].v <= snr[i].v})

(* m2 is twice the median of the snr of the rows I *)
IsMedian2(m2, I) ==
    LET n == Cardinality(I)
    IN  \E i \in I : \E j \in I :
          /\ HasRank(i, (n + 1) \div 2, I)
          /\ HasRank(j, n \div 2 + 1, I)
          /\ m2 = snr[i].v + snr[j].v

Median2(I) == CHOOSE m2 \in {snr[i].v + snr[j].v : i \in I, j \in I} : IsMedian2(m2, I)

(* the bins of pixel px with a defined median *)
DefinedBins(px) == { k \in 0..(NBins - 1) : UsableRows(px, k) # {} }

(* twice the distance of bin k's median from the threshold *)
Dist2(px, k) == fabs(Median2(UsableRows(px, k)) - 2 * snr_threshold)

(* the midpoint of bin k: 22 + 6/30*(k + 0.5) mag *)
BinMidpoint(k) ==
    RangeLo * MagUnit + ((2 * k + 1) * (RangeHi - RangeLo) * MagUnit) \div (2 * NBins)

BinMidpoints == { BinMidpoint(k) : k \in 0..(NBins - 1) }

----------------------------------------------------------------------------
(* C1: when the loop has visited a pixel with at least one bin of        *)
(* defined median, the pixel's depth is the center magnitude of a bin    *)
(* whose median snr (NaN ignored, rows of that pixel only) is nearest    *)
(* snr_threshold among the bins with a defined median.                   *)
C1_DepthIsCenterOfClosestBin ==
    (Visited /\ SameLength) =>
        \E D \in {DefinedBins(last_px)} :
            D # {} =>
              \E k \in D :
                /\ map_out[last_px] = BinMidpoint(k)
                /\ \A c \in D : Dist2(last_px, k) <= Dist2(last_px, c)

(* The selection alone, read off the array the code calls bin_centers:   *)
(* the depth is that array's entry for a bin nearest the threshold.      *)
DepthIsEntryOfClosestBin ==
    (Visited /\ SameLength) =>
        \E D \in {DefinedBins(last_px)} :
            D # {} =>
              \E k \in D :
                /\ map_out[last_px] = bin_centers[k + 1]
                /\ \A c \in D : Dist2(last_px, k) <= Dist2(last_px, c)

(* C2: every value of a returned map is 0.0 or one of the 30 bin centers *)
(* 22.1, 22.3, ..., 27.9.                                                *)
C2_ValuesAreZeroOrBinCenters ==
    \A n \in DOMAIN calls :
        calls[n].ok =>
            \A p \in DOMAIN calls[n].map :
                calls[n].map[p] = 0 \/ calls[n].map[p] \in BinMidpoints

(* C3: a returned map is dense over 0 .. 12*nside^2 - 1, and every pixel *)
(* index the projection gives a retained row lies in that range.         *)
C3_MapIsDenseAndPixelsInRange ==
    /\ \A n \in DOMAIN calls :
          calls[n].ok => DOMAIN calls[n].map = 0..(12 * nside * nside - 1)
    /\ \A i \in DOMAIN pix_nums :
          0 <= pix_nums[i] /\ pix_nums[i] <= 12 * nside * nside - 1

(* reached: a map of nside 2 returned with a populated pixel beyond the  *)
(* first twelve                                                          *)
C3_Witness ==
    /\ Returned
    /\ nside = 2
    /\ \E i \in DOMAIN pix_nums : pix_nums[i] >= 12 /\ map_out[pix_nums[i]] # 0

(* C4: one row with a magnitude and an snr, alone in its pixel, gives a  *)
(* map whose populated pixel holds the bin center nearest the row's      *)
(* magnitude and whose other pixels hold 0.0; for ra 10, dec 20,         *)
(* magnitude 24.0, snr 10, nside 1 that is a center near 24.1, in a map  *)
(* of 12 entries.                                                        *)
NearestMidpoints(m) ==
    { c \in BinMidpoints : \A o \in BinMidpoints : fabs(c - m) <= fabs(o - m) }

C4_SingleRowGivesNearestCenter ==
    ( /\ Returned
      /\ SameLength
      /\ Len(ra) = 1
      /\ BothFinite(1)
      /\ BinOf(mags[1], NBins, RangeLo, RangeHi) >= 0
      /\ ~isnan(snr[1]) ) =>
        /\ map_out[pix_nums[1]] \in NearestMidpoints(mags[1].v)
        /\ \A p \in DOMAIN map_out : p # pix_nums[1] => map_out[p] = 0
        /\ Cardinality(DOMAIN map_out) = 12 * nside * nside

(* C5: no row with a NaN ra or a NaN dec is retained: once the rows are  *)
(* projected, every retained row has both coordinates.                   *)
C5_NoNaNCoordinateRetained ==
    (Projected /\ SameLength) =>
        \A i \in DOMAIN good : good[i] => BothFinite(i)

(* C6: in the pixel visited, a bin with at least one row of non-NaN snr  *)
(* has the median of those rows alone, and a bin with no such row (all   *)
(* NaN, or empty) has no median and is not the bin of the pixel's depth. *)
C6_NaNSnrIgnored ==
    (Visited /\ SameLength) =>
        \A k \in 0..(NBins - 1) :
            \E U \in {UsableRows(last_px, k)} :
                IF U = {}
                THEN /\ isnan(median_snr[k + 1])
                     /\ map_out[last_px] # bin_centers[k + 1]
                ELSE /\ ~isnan(median_snr[k + 1])
                     /\ IsMedian2(median_snr[k + 1].v, U)

(* reached: a bin holding a NaN snr beside a non-NaN one, in a pixel     *)
(* that has been given a depth                                           *)
C6_Witness ==
    /\ Visited
    /\ SameLength
    /\ \E k \in 0..(NBins - 1) :
          /\ UsableRows(last_px, k) # {}
          /\ BinRows(last_px, k) # UsableRows(last_px, k)
          /\ map_out[last_px] = bin_centers[k + 1]

(* reached: a visited pixel whose only rows have NaN snr *)
C6_AllNaNBinReached ==
    /\ Visited
    /\ SameLength
    /\ \E k \in 0..(NBins - 1) :
          BinRows(last_px, k) # {} /\ UsableRows(last_px, k) = {}

(* the exceptions numpy raises for arrays that do not fit each other,    *)
(* and those healpy raises for an argument it rejects                    *)
ShapeErrors == {"broadcast", "boolean_index"}
ParameterErrors == {"theta", "nside"}

(* the number of rows line 227 retains *)
NRetained == Cardinality({i \in DOMAIN good : good[i]})

C9_EmptyInputGivesZeroMap ==
    ( /\ pc = "done"
      /\ Len(ra) = 0 /\ Len(dec) = 0 /\ Len(mags) = 0 /\ Len(snr) = 0
      /\ nside > 0 ) =>
        /\ LastCall.ok
        /\ DOMAIN LastCall.map = 0..(12 * nside * nside - 1)
        /\ \A p \in DOMAIN LastCall.map : LastCall.map[p] = 0

(* reached: the 48 zeros of nside 2 returned for no rows *)
C9_Witness ==
    /\ pc = "done"
    /\ Len(ra) = 0 /\ Len(dec) = 0 /\ Len(mags) = 0 /\ Len(snr) = 0
    /\ nside = 2
    /\ LastCall.ok
    /\ Cardinality(DOMAIN LastCall.map) = 48

Merged(p) ==
    /\ p \in Pixels(pix_nums)
    /\ p \notin Pixels(pending)
    /\ p \notin { w.px : w \in inflight }

C11_WorkersGiveSequentialMap ==
    /\ Len(calls) = NCalls => calls[2] = calls[1]
    /\ (Len(calls) = 1 /\ pc = "loop" /\ calls[1].ok) =>
          \A p \in DOMAIN map_out :
              map_out[p] = IF Merged(p) THEN calls[1].map[p] ELSE 0

(* reached: the workers have merged a pixel's depth while a lower pixel, *)
(* which the sequential loop visits first, is still to be merged         *)
C11_Witness ==
    /\ Len(calls) = 1
    /\ pc = "loop"
    /\ \E q \in Pixels(pix_nums) :
          /\ Merged(q)
          /\ map_out[q] # 0
          /\ \E w \in inflight : w.px < q /\ w.value # 0

(* C12: no step of a call changes the input arrays or a map returned by  *)
(* an earlier call: the map of a call is a new array.                    *)
C12_InputsAndEarlierMapsUnchanged ==
    [][ /\ inputs' = inputs
        /\ \A n \in DOMAIN calls : calls'[n] = calls[n] ]_vars

(* reached: the second call is filling its map, which already differs    *)
(* from the non-zero map the first call returned                         *)
C12_Witness ==
    /\ Len(calls) = 1
    /\ calls[1].ok
    /\ pc = "loop"
    /\ \E p \in DOMAIN calls[1].map : calls[1].map[p] # 0 /\ map_out[p] = 0
    /\ \E p \in DOMAIN map_out : map_out[p] # 0

(* a magnitude inside [22, 28) mag *)
InRange(m) ==
    /\ ~isnan(m)
    /\ m.v >= RangeLo * MagUnit
    /\ m.v < RangeHi * MagUnit

(* the retained rows that project to pixel p *)
RowsOf(p) ==
    { i \in 1..Len(ra) : GoodRow(ra[i], dec[i]) /\ ang2pix(nside, dec[i], ra[i]) = p }

(* the rows of pixel p with a magnitude in range and an snr *)
UsableData(p) == { i \in RowsOf(p) : InRange(mags[i]) /\ ~isnan(snr[i]) }

(* C13: in a returned map the depth of a pixel is 0.0 exactly when the   *)
(* pixel has no retained row with a magnitude in [22, 28) and a non-NaN  *)
(* snr; a pixel with such a row has a non-zero depth.                    *)
C13_ZeroIffNoUsableData ==
    (Returned /\ SameLength) =>
        \A p \in DOMAIN map_out : (map_out[p] = 0) <=> (UsableData(p) = {})

(* reached: a returned map with a pixel whose only row has a magnitude   *)
(* outside the range, or no snr, at 0.0, next to a pixel with a depth    *)
C13_Witness ==
    /\ Returned
    /\ SameLength
    /\ \E p \in DOMAIN map_out :
          /\ RowsOf(p) # {}
          /\ \A i \in RowsOf(p) : ~InRange(mags[i])
          /\ map_out[p] = 0
    /\ \E q \in DOMAIN map_out : UsableData(q) # {} /\ map_out[q] # 0

(* reached: a pixel whose rows are in range and all without snr *)
C13_AllNaNSnrReached ==
    /\ Returned
    /\ SameLength
    /\ \E p \in DOMAIN map_out :
          /\ RowsOf(p) # {}
          /\ \A i \in RowsOf(p) : InRange(mags[i]) /\ isnan(snr[i])
          /\ map_out[p] = 0

(* the NaN filter has removed a row *)
FilterRemoved == \E i \in DOMAIN good : ~good[i]

(* C14: when the NaN filter has removed a row, the mask of a pixel,      *)
(* built over the retained rows, still fits the magnitude and snr        *)
(* arrays (no length mismatch), and the medians of the pixel visited     *)
(* are those of the rows that project to it (no index shift).            *)
C14_MaskSelectsOwnRows ==
    /\ (SameLength /\ FilterRemoved) => err # "boolean_index"
    /\ (SameLength /\ FilterRemoved /\ Visited) =>
          \A k \in 0..(NBins - 1) :
              \E U \in {UsableRows(last_px, k)} :
                  IF U = {} THEN isnan(median_snr[k + 1])
                  ELSE /\ ~isnan(median_snr[k + 1])
                       /\ IsMedian2(median_snr[k + 1].v, U)

(* What the code does then: once a row is removed and another retained,  *)
(* no call on arrays of one length returns a map.                        *)
FilteredCallNeverReturns ==
    (SameLength /\ FilterRemoved /\ NRetained > 0) => ~Returned

(* the bins of pixel px whose median is nearest the threshold *)
NearestBins(px) ==
    { k \in DefinedBins(px) :
        \A c \in DefinedBins(px) : Dist2(px, k) <= Dist2(px, c) }

Lowest(S) == CHOOSE x \in S : \A y \in S : x <= y

(* C15: when several bins of the pixel visited are equally near the      *)
(* threshold, the depth is the center magnitude of the lowest of them,   *)
(* whatever the order of the rows.                                       *)
C15_TieGivesCenterOfLowestBin ==
    (Visited /\ SameLength) =>
        \E N \in {NearestBins(last_px)} :
            Cardinality(N) >= 2 => map_out[last_px] = BinMidpoint(Lowest(N))

(* The tie-break alone, read off the array the code calls bin_centers:   *)
(* the depth is that array's entry for the lowest of the tied bins.      *)
LowestTiedBinWins ==
    (Visited /\ SameLength) =>
        \E N \in {NearestBins(last_px)} :
            Cardinality(N) >= 2 => map_out[last_px] = bin_centers[Lowest(N) + 1]

(* reached: two bins tied, the row of the higher bin first in the input *)
TieReached ==
    /\ Visited
    /\ SameLength
    /\ Cardinality(NearestBins(last_px)) >= 2
    /\ Len(mags) = 2
    /\ mags[1].v > mags[2].v

====
